---- MODULE Spec2Model ----
(***************************************************************************)
(* Notification dispatch engine of UrbanZen                                *)
(* (internal/notification/service.go): the ingest path, the three          *)
(* priority-keyed fan-outs, the delivery-status upsert, the promotion     *)
(* sweep of scheduled notifications and the retry sweep of failed sends.   *)
(*                                                                         *)
(* The channel senders, the store and the preference source are external:  *)
(* every IsAvailable(), Send(), db.Exec()/db.Query() and preference lookup *)
(* returns a value chosen nondeterministically at the call.                *)
(***************************************************************************)
EXTENDS Integers, Sequences, FiniteSets, TLC

\* ------------------------------------------------------------------ bounds
MaxNotifs == 1      \* distinct notification ids the event source delivers
MaxBatch == 2       \* the same, while every channel is unavailable (SweepSpec)
MaxTime == 1        \* the clock runs over 0..MaxTime
MaxRuns == 2        \* fan-outs of one notification (ingest + promotions)
MaxSends == 3       \* Send calls issued or pending over the whole run
MaxRetries == 2     \* rows handled by retry sweeps over the whole run (RetrySpec)
MaxMessages == 2    \* messages in one batch of the ingest loop (IngestSpec, ShutdownSpec)

\* ------------------------------------------------------- program constants
Channels == {"push", "sms", "email"}

EmergencyChannelsNoEmail == <<"push", "sms">>

EmergencyChannels == <<"push", "sms", "email">>

PreferredChannels == <<"push", "sms">>

FallbackChannel == "email"

\* a default that enables every channel
DefaultPrefsAll == [k \in {"push", "sms", "email"} |-> TRUE]

DefaultPrefs == [k \in {"email"} |-> TRUE]

PromotionLimit == 100

\* the retry query: INTERVAL '5 minutes', INTERVAL '24 hours' (in minutes), LIMIT 50
Cooldown == 5

RetryWindow == 1440

RetryLimit == 50

\* the expiry given to SetEX (time.Hour), in minutes
TTL == 60

\* ------------------------------------------------------------ input spaces
IDs == 1..(IF MaxNotifs > MaxBatch THEN MaxNotifs ELSE MaxBatch)

\* the answers IsAvailable() may give over the three channels: any, or (while
\* every channel is unavailable) none
AnyAvailability == SUBSET Channels

AllUnavailable == {{}}

Times == 0..MaxTime

NoTime == -1

\* what a channel's Send returns: nil (TRUE) or an error (FALSE); a Send is
\* bounded by a timeout, and one that runs into it returns an error
SendResults == BOOLEAN

\* "low" stands for any priority string other than the three known ones
Priorities == {"emergency", "high", "normal", "low"}

\* the preference maps the recipient's stored preferences may hold ("webhook"
\* is a key that names no registered channel)
UserPrefChoices ==
    { [k \in {"email", "sms"} |-> (k = "email")],
      [k \in {"email", "push", "webhook"} |-> TRUE] }

\* the map in the store when the engine starts
InitialPrefs == [k \in {"email", "sms"} |-> (k = "email")]

\* the tasks that call getUserNotificationPreferences (through
\* processRegularNotification): the ingest loop and the promotion sweep
LookupTasks == {"consumer", "scheduler"}

\* no call in progress
IdleLookup == [pc |-> "idle", saw |-> "none", live |-> FALSE, map |-> <<>>, queried |-> FALSE]

\* the messages the event source may deliver under one id: the well-formed
\* ones, the ones with one required field empty, and the ones that do not
\* unmarshal (json.Unmarshal fills the fields it decoded before the error)
WellFormed(id) ==
    [ id : {id}, parseOk : {TRUE}, userID : {"u"}, title : {"t"}, message : {"m"},
      type : {"alert"}, priority : Priorities, scheduled_at : {NoTime} \cup Times ]

MissingField(id) ==
    { [id |-> id, parseOk |-> TRUE, userID |-> IF f = 1 THEN "" ELSE "u",
       title |-> IF f = 2 THEN "" ELSE "t", message |-> IF f = 3 THEN "" ELSE "m",
       type |-> IF f = 4 THEN "" ELSE "alert", priority |-> "normal", scheduled_at |-> NoTime] :
        f \in 1..4 }

Malformed(id) ==
    { [id |-> id, parseOk |-> FALSE, userID |-> "", title |-> "", message |-> "",
       type |-> "", priority |-> "", scheduled_at |-> NoTime],
      [id |-> id, parseOk |-> FALSE, userID |-> "u", title |-> "t", message |-> "m",
       type |-> "alert", priority |-> "normal", scheduled_at |-> NoTime] }

Messages(id) == WellFormed(id) \cup MissingField(id) \cup Malformed(id)

\* the messages delivered while the ingest loop is studied: to be delivered
\* now, on the broadcast path or the preference path, or dropped
IngestMessages(id) ==
    {m \in Messages(id) : m.scheduled_at = NoTime /\ m.priority \in {"", "emergency", "normal"}}

\* the messages delivered while the retry sweep is studied: normal priority,
\* to be delivered now or deferred by the length of the retry window
RetryMessages(id) ==
    [ id : {id}, parseOk : {TRUE}, userID : {"u"}, title : {"t"}, message : {"m"},
      type : {"alert"}, priority : {"normal"}, scheduled_at : {NoTime, RetryWindow} ]

\* the instants, in minutes, at which the clock is read while the preference
\* cache is studied: the start and both sides of the expiry of an entry
CacheInstants == {0, TTL - 1, TTL}

\* the instants, in minutes, at which the clock is read while the retry sweep
\* is studied: the start, both sides of the cooldown and of the retry window
Instants == {0, Cooldown, Cooldown + 1, RetryWindow - 1, RetryWindow}

\* what the event source may deliver next under an id: anything while the id
\* is new; once it is stored every message under it ends the same way (dropped
\* at unmarshal or validation, or refused by the INSERT), so one stands for all
Deliverable(id, stored) ==
    IF id \in stored
    THEN {[id |-> id, parseOk |-> TRUE, userID |-> "u", title |-> "t", message |-> "m",
           type |-> "alert", priority |-> "normal", scheduled_at |-> NoTime]}
    ELSE Messages(id)

SeqToSet(s) == {s[i] : i \in 1..Len(s)}

Perms(S) == {s \in [1..Cardinality(S) -> S] : \A i, j \in 1..Cardinality(S) : i # j => s[i] # s[j]}

\* ------------------------------------------------------------------- state
VARIABLES
    now,            \* wall clock (time.Now() / NOW())
    notifications,  \* table notifications: id -> row
    delivery,       \* table notification_delivery_status: <<id, channel>> -> row
    goroutines,     \* emergency send goroutines started and not yet run
    sched,          \* promotion sweep: position in processScheduledNotifications
    runs,           \* history: per id, the fan-outs started for it
    sends,          \* history: per id, the Send calls issued
    lastUpsert,     \* history: per pair, arguments of the last upsert the store executed
    execFailed,     \* history: the pairs for which an upsert's Exec returned an error
    lastIngest,     \* history: how the last consumed message ended (recorded under IngestSpec)
    consumer,       \* consumeNotifications: where the loop stands, and the messages left of its batch
    shutdown,       \* main: "none", then "cancelled" (cancel() called), then "exited" (main returned)
    cache,          \* redis key user_prefs:<user>: <<>>, or <<entry>> with its value and expiry
    prefsStore,     \* users.notification_preferences of the user
    lookups,        \* getUserNotificationPreferences: where the call of each task stands
    hints,          \* history: the Channels list and the availability each stored notification came with
    retry,          \* retry sweep: position in retryFailedNotifications
    retries         \* history: per pair, how each of its retry rows ended

vars == <<now, notifications, delivery, goroutines, sched, runs, sends, lastUpsert,
          execFailed, lastIngest, retry, retries, consumer, shutdown,
          cache, prefsStore, lookups, hints>>

\* ------------------------------------------------------------ pure helpers
validateNotificationNoTitle(m) ==
    /\ m.userID # ""
    /\ m.message # ""
    /\ m.type # ""

validateNotification(m) ==
    /\ m.userID # ""
    /\ m.title # ""
    /\ m.message # ""
    /\ m.type # ""

\* an upsert whose conflict target is the notification alone
UpsertRowById(d, id, ch, status, t) ==
    IF \E k \in DOMAIN d : k[1] = id
    THEN [k \in DOMAIN d |-> IF k[1] = id THEN [status |-> ch, attempted_at |-> t] ELSE d[k]]
    ELSE d @@ (<<id, ch>> :> [status |-> status, attempted_at |-> t])

\* INSERT ... ON CONFLICT (notification_id, channel) DO UPDATE SET status = $2, attempted_at = $4
\* with $1 = notificationID, $2 = channel, $3 = status, $4 = time.Now()
UpsertRow(d, id, ch, status, t) ==
    IF <<id, ch>> \in DOMAIN d
    THEN [d EXCEPT ![<<id, ch>>] = [status |-> ch, attempted_at |-> t]]
    ELSE d @@ (<<id, ch>> :> [status |-> status, attempted_at |-> t])

\* updateDeliveryStatus: the Exec may fail, which is only logged
updateDeliveryStatus(d, id, ch, status, t, dbOk) ==
    IF dbOk THEN UpsertRow(d, id, ch, status, t) ELSE d

RecordCall(lu, id, ch, status, t, dbOk) ==
    IF dbOk
    THEN [k \in DOMAIN lu \cup {<<id, ch>>} |->
            IF k = <<id, ch>> THEN [status |-> status, attempted_at |-> t] ELSE lu[k]]
    ELSE lu

\* the loop of processHighPriorityNotification (lines 151-161): channels tried
\* in order, unavailable ones skipped, stop at the first Send that succeeds
RECURSIVE TryInOrderNoStop(_, _, _)
TryInOrderNoStop(order, av, res) ==
    IF order = <<>> THEN <<>>
    ELSE LET ch == Head(order)
         IN  IF ch \in av
             THEN <<[ch |-> ch, ok |-> res[ch]]>> \o TryInOrderNoStop(Tail(order), av, res)
             ELSE TryInOrderNoStop(Tail(order), av, res)

RECURSIVE TryInOrder(_, _, _)
TryInOrder(order, av, res) ==
    IF order = <<>> THEN <<>>
    ELSE LET ch == Head(order)
         IN  IF ch \in av
             THEN IF res[ch]
                  THEN <<[ch |-> ch, ok |-> TRUE]>>
                  ELSE <<[ch |-> ch, ok |-> FALSE]>> \o TryInOrder(Tail(order), av, res)
             ELSE TryInOrder(Tail(order), av, res)

AnyOk(calls) == \E i \in 1..Len(calls) : calls[i].ok

\* lines 163-170: the email fallback, reached only when the loop did not return
FallbackNone(first, av, res) == <<>>

Fallback(first, av, res) ==
    IF ~AnyOk(first) /\ FallbackChannel \in av
    THEN <<[ch |-> FallbackChannel, ok |-> res[FallbackChannel]]>>
    ELSE <<>>

HighCalls(av, res) ==
    LET first == TryInOrder(PreferredChannels, av, res)
    IN  first \o Fallback(first, av, res)

\* lines 182-196: the channels of the preference map that are sent to
EnabledIgnoringFlag(prefs, av) == {k \in DOMAIN prefs : k \in Channels /\ k \in av}

Enabled(prefs, av) == {k \in DOMAIN prefs : prefs[k] /\ k \in Channels /\ k \in av}

\* the Sends of one goroutine-free fan-out applied to the delivery table;
\* recordFailed tells whether the path records a failed Send (only the regular one does)
RECURSIVE ApplyCalls(_, _, _, _, _, _)
ApplyCalls(d, id, calls, recordFailed, dbFail, t) ==
    IF calls = <<>> THEN d
    ELSE LET c == Head(calls)
             d1 == IF c.ok THEN updateDeliveryStatus(d, id, c.ch, "delivered", t, c.ch \notin dbFail)
                   ELSE IF recordFailed
                        THEN updateDeliveryStatus(d, id, c.ch, "failed", t, c.ch \notin dbFail)
                        ELSE d
         IN  ApplyCalls(d1, id, Tail(calls), recordFailed, dbFail, t)

RECURSIVE RecordCalls(_, _, _, _, _, _)
RecordCalls(lu, id, calls, recordFailed, dbFail, t) ==
    IF calls = <<>> THEN lu
    ELSE LET c == Head(calls)
             l1 == IF c.ok THEN RecordCall(lu, id, c.ch, "delivered", t, c.ch \notin dbFail)
                   ELSE IF recordFailed
                        THEN RecordCall(lu, id, c.ch, "failed", t, c.ch \notin dbFail)
                        ELSE lu
         IN  RecordCalls(l1, id, Tail(calls), recordFailed, dbFail, t)

\* the Send calls of fan-out r, each with its position k in the fan-out
Tagged(calls, r) == {[run |-> r, k |-> i, ch |-> calls[i].ch, ok |-> calls[i].ok] : i \in 1..Len(calls)}

\* ------------------------------------------------------------------ Init
Init ==
    /\ now = 0
    /\ notifications = <<>>
    /\ delivery = <<>>
    /\ goroutines = {}
    /\ sched = [pc |-> "idle", rows |-> <<>>]
    /\ runs = [id \in IDs |-> <<>>]
    /\ sends = [id \in IDs |-> {}]
    /\ lastUpsert = <<>>
    /\ execFailed = {}
    /\ lastIngest = "none"
    /\ consumer = [pc |-> "select", batch |-> <<>>]
    /\ shutdown = "none"
    /\ cache = <<>>
    /\ prefsStore = InitialPrefs
    /\ lookups = [t \in LookupTasks |-> IdleLookup]
    /\ hints = <<>>
    /\ retry = [pc |-> "idle", rows |-> <<>>]
    /\ retries = <<>>


\* ------------------------------------------------------------ fan-outs
\* the Send calls issued so far and the ones pending in goroutines
SendCount ==
    LET RECURSIVE Sum(_)
        Sum(S) == IF S = {} THEN 0
                  ELSE LET id == CHOOSE x \in S : TRUE
                       IN  Cardinality(sends[id]) + Sum(S \ {id})
    IN  Sum(IDs) + Cardinality(goroutines)

\* a fan-out is entered in the history with the answers IsAvailable() gave on
\* the channels it asked (avail), and the preference map it ranged over
StartRun(id, path, asked, av, prefs, lookup) ==
    runs' = [runs EXCEPT ![id] =
                Append(@, [path |-> path, asked |-> asked, avail |-> av \cap asked,
                           prefs |-> prefs, lookup |-> lookup])]

\* a check that lets every channel through
UsableAlways(ch, av) == TRUE

\* svc, exists := s.channels[ch]; exists && svc.IsAvailable(), where av holds
\* the registered channels that answer available
Usable(ch, av) == ch \in av

\* processEmergencyNotification: one goroutine per registered and available
\* channel of the list, then return without waiting for them
processEmergencyNotification(id, path, avs) ==
    \E av \in avs :
        /\ SendCount + Cardinality(SeqToSet(EmergencyChannels) \cap av) <= MaxSends
        /\ StartRun(id, path, Channels, av, <<>>, "none")
        /\ goroutines' = goroutines \cup
               {[id |-> id, run |-> Len(runs[id]) + 1, k |-> i, ch |-> EmergencyChannels[i]] :
                    i \in {j \in 1..Len(EmergencyChannels) : Usable(EmergencyChannels[j], av)}}
        /\ UNCHANGED <<sends, delivery, lastUpsert, execFailed>>

\* a goroutine that records delivered whatever Send returns
GoroutineSendAlwaysRecords(g, ok, dbOk) ==
    /\ g \in goroutines
    /\ goroutines' = goroutines \ {g}
    /\ sends' = [sends EXCEPT ![g.id] = @ \cup {[run |-> g.run, k |-> g.k, ch |-> g.ch, ok |-> ok]}]
    /\ delivery' = updateDeliveryStatus(delivery, g.id, g.ch, "delivered", now, dbOk)
    /\ lastUpsert' = RecordCall(lastUpsert, g.id, g.ch, "delivered", now, dbOk)
    /\ execFailed' = IF ~dbOk THEN execFailed \cup {<<g.id, g.ch>>} ELSE execFailed
    /\ UNCHANGED <<now, notifications, sched, runs, lastIngest, retry, retries, consumer, shutdown, cache, prefsStore, lookups, hints>>

\* the body of one such goroutine (lines 135-142): Send, and on success the upsert
GoroutineSend(g, ok, dbOk) ==
    /\ g \in goroutines
    /\ goroutines' = goroutines \ {g}
    /\ sends' = [sends EXCEPT ![g.id] = @ \cup {[run |-> g.run, k |-> g.k, ch |-> g.ch, ok |-> ok]}]
    /\ delivery' = IF ok THEN updateDeliveryStatus(delivery, g.id, g.ch, "delivered", now, dbOk)
                   ELSE delivery
    /\ lastUpsert' = IF ok THEN RecordCall(lastUpsert, g.id, g.ch, "delivered", now, dbOk)
                     ELSE lastUpsert
    /\ execFailed' = IF ok /\ ~dbOk THEN execFailed \cup {<<g.id, g.ch>>} ELSE execFailed
    /\ UNCHANGED <<now, notifications, sched, runs, lastIngest, retry, retries, consumer, shutdown, cache, prefsStore, lookups, hints>>

\* the channels whose IsAvailable() processHighPriorityNotification asks
AskedHigh(calls) ==
    LET okAt == {i \in 1..Len(calls) : calls[i].ok}
    IN  IF okAt = {} THEN SeqToSet(PreferredChannels) \cup {FallbackChannel}
        ELSE LET ch == calls[CHOOSE i \in okAt : TRUE].ch
             IN  IF ch = FallbackChannel THEN SeqToSet(PreferredChannels) \cup {FallbackChannel}
                 ELSE {PreferredChannels[j] : j \in {j \in 1..Len(PreferredChannels) :
                          \E k \in j..Len(PreferredChannels) : PreferredChannels[k] = ch}}

\* processHighPriorityNotification
processHighPriorityNotification(id, path, avs) ==
    \E av \in avs :
      \E res \in [av -> SendResults] :
        LET calls == HighCalls(av, res)
        IN  \E dbFail \in SUBSET {c \in av : \E i \in 1..Len(calls) : calls[i].ch = c /\ calls[i].ok} :
              /\ SendCount + Len(calls) <= MaxSends
              /\ StartRun(id, path, AskedHigh(calls), av, <<>>, "none")
              /\ sends' = [sends EXCEPT ![id] = @ \cup Tagged(calls, Len(runs[id]) + 1)]
              /\ delivery' = ApplyCalls(delivery, id, calls, FALSE, dbFail, now)
              /\ lastUpsert' = RecordCalls(lastUpsert, id, calls, FALSE, dbFail, now)
              /\ execFailed' = execFailed \cup {<<id, c>> : c \in dbFail}
              /\ UNCHANGED goroutines

\* processRegularNotification: the preference lookup (or the default map when
\* it fails), then the map is ranged over, in any order
processRegularNotification(id, path, avs) ==
    \E lookupOk \in BOOLEAN, userPrefs \in UserPrefChoices :
        LET prefs == IF lookupOk THEN userPrefs ELSE DefaultPrefs
            asked == Enabled(prefs, Channels)
        IN  \E av \in {a \cap asked : a \in avs} :
              \E order \in Perms(Enabled(prefs, av)), res \in [av -> SendResults], dbFail \in SUBSET av :
                LET calls == [i \in 1..Len(order) |-> [ch |-> order[i], ok |-> res[order[i]]]]
                IN  /\ SendCount + Len(calls) <= MaxSends
                    /\ StartRun(id, path, asked, av, prefs, IF lookupOk THEN "ok" ELSE "error")
                    /\ sends' = [sends EXCEPT ![id] = @ \cup Tagged(calls, Len(runs[id]) + 1)]
                    /\ delivery' = ApplyCalls(delivery, id, calls, TRUE, dbFail, now)
                    /\ lastUpsert' = RecordCalls(lastUpsert, id, calls, TRUE, dbFail, now)
                    /\ execFailed' = execFailed \cup {<<id, c>> : c \in dbFail}
                    /\ UNCHANGED goroutines

\* the switch on notification.Priority (lines 119-126 and 329-336)
Dispatch(id, prio, path, avs) ==
    /\ Len(runs[id]) < MaxRuns
    /\ CASE prio = "emergency" -> processEmergencyNotification(id, path, avs)
         [] prio = "high" -> processHighPriorityNotification(id, path, avs)
         [] OTHER -> processRegularNotification(id, path, avs)

\* ------------------------------------------------------------ ingest path
\* storeNotification: INSERT with status 'pending'
storeNotification(m) ==
    notifications @@ (m.id :> [priority |-> m.priority, scheduled_at |-> m.scheduled_at,
                               created_at |-> now, status |-> "pending"])

\* an unmarshal whose error is not looked at
UnmarshalFailsIgnored(m) == FALSE

\* json.Unmarshal of the message value returns an error
UnmarshalFails(m) == ~m.parseOk

\* a store whose error is not looked at
StoreFailsIgnored(m, dbOk) == FALSE

\* storeNotification returns an error: the Exec failed, or the id (primary
\* key) is already in the table
StoreFails(m, dbOk) == ~dbOk \/ m.id \in DOMAIN notifications

\* processNotificationMessage on one consumed message: unmarshal, validate,
\* store, then the fan-out of its priority
processNotificationMessage(m, dbOk, avs) ==
    /\ IF UnmarshalFails(m) \/ ~validateNotification(m) \/ StoreFails(m, dbOk)
       THEN UNCHANGED <<notifications, delivery, goroutines, runs, sends, lastUpsert, execFailed>>
       ELSE /\ notifications' = storeNotification(m)
            /\ Dispatch(m.id, m.priority, "ingest", avs)
    /\ UNCHANGED <<now, sched, retry, retries, shutdown, cache, prefsStore, lookups>>

\* ------------------------------------------------------------ promotion sweep
\* collation of the priority strings, as ORDER BY priority orders them
PriorityCollation(p) ==
    CASE p = "emergency" -> 1 [] p = "high" -> 2 [] p = "low" -> 3 [] p = "normal" -> 4

\* WHERE scheduled_at <= NOW() AND status = 'pending' (a NULL scheduled_at never matches)
DueStrict(id) ==
    /\ id \in DOMAIN notifications
    /\ notifications[id].status = "pending"
    /\ notifications[id].scheduled_at # NoTime
    /\ notifications[id].scheduled_at < now

Due(id) ==
    /\ id \in DOMAIN notifications
    /\ notifications[id].status = "pending"
    /\ notifications[id].scheduled_at # NoTime
    /\ notifications[id].scheduled_at <= now

\* ORDER BY priority DESC, scheduled_at ASC
QueryOrder(a, b) ==
    \/ PriorityCollation(notifications[a].priority) > PriorityCollation(notifications[b].priority)
    \/ /\ notifications[a].priority = notifications[b].priority
       /\ notifications[a].scheduled_at <= notifications[b].scheduled_at

\* the result sets the query may return: the due rows in query order, cut at LIMIT
Batches ==
    LET due == {id \in IDs : Due(id)}
    IN  {SubSeq(s, 1, IF Len(s) < PromotionLimit THEN Len(s) ELSE PromotionLimit) :
            s \in {p \in Perms(due) : \A i, j \in 1..Len(p) : i < j => QueryOrder(p[i], p[j])}}

\* startScheduler tick: processScheduledNotifications runs its query; on an
\* error it logs ("failed") and returns
PromotionQuery(dbOk) ==
    /\ sched.pc = "idle"
    /\ IF dbOk
       THEN \E rows \in Batches : sched' = [pc |-> "process", rows |-> rows]
       ELSE sched' = [pc |-> "failed", rows |-> <<>>]
    /\ UNCHANGED <<now, notifications, delivery, goroutines, runs, sends, lastUpsert>>
    /\ UNCHANGED <<execFailed, lastIngest, retry, retries, consumer, shutdown, cache, prefsStore, lookups, hints>>

\* a sweep task that ends on a query error
PromotionReturnStop ==
    /\ sched.pc = "failed"
    /\ sched' = [pc |-> "stopped", rows |-> <<>>]
    /\ UNCHANGED <<now, notifications, delivery, goroutines, runs, sends, lastUpsert>>
    /\ UNCHANGED <<execFailed, lastIngest, retry, retries, consumer, shutdown, cache, prefsStore, lookups, hints>>

PromotionReturn ==
    /\ sched.pc = "failed"
    /\ sched' = [pc |-> "idle", rows |-> <<>>]
    /\ UNCHANGED <<now, notifications, delivery, goroutines, runs, sends, lastUpsert>>
    /\ UNCHANGED <<execFailed, lastIngest, retry, retries, consumer, shutdown, cache, prefsStore, lookups, hints>>

\* rows.Next() returns false: the sweep is over
PromotionDone ==
    /\ sched.pc = "process"
    /\ sched.rows = <<>>
    /\ sched' = [pc |-> "idle", rows |-> <<>>]
    /\ UNCHANGED <<now, notifications, delivery, goroutines, runs, sends, lastUpsert>>
    /\ UNCHANGED <<execFailed, lastIngest, retry, retries, consumer, shutdown, cache, prefsStore, lookups, hints>>

NextRow == [pc |-> "process", rows |-> Tail(sched.rows)]

\* rows.Scan fails: the row is skipped (continue)
PromotionScanError ==
    /\ sched.pc = "process"
    /\ sched.rows # <<>>
    /\ sched' = NextRow
    /\ UNCHANGED <<now, notifications, delivery, goroutines, runs, sends, lastUpsert>>
    /\ UNCHANGED <<execFailed, lastIngest, retry, retries, consumer, shutdown, cache, prefsStore, lookups, hints>>

\* the switch of lines 329-336 on the scanned row
PromotionProcess(avs) ==
    /\ sched.pc = "process"
    /\ sched.rows # <<>>
    /\ Dispatch(Head(sched.rows), notifications[Head(sched.rows)].priority, "promote", avs)
    /\ sched' = [sched EXCEPT !.pc = "mark"]
    /\ UNCHANGED <<now, notifications, lastIngest, retry, retries, consumer, shutdown, cache, prefsStore, lookups, hints>>

\* an UPDATE that writes a final status whatever it is given
updateNotificationStatusFinal(n, id, status, dbOk) ==
    IF dbOk /\ id \in DOMAIN n THEN [n EXCEPT ![id].status = "delivered"] ELSE n

\* updateNotificationStatus: the UPDATE may fail, which is only logged
updateNotificationStatus(n, id, status, dbOk) ==
    IF dbOk /\ id \in DOMAIN n THEN [n EXCEPT ![id].status = status] ELSE n

\* line 339, after the fan-out of the row
PromotionMark(dbOk) ==
    /\ sched.pc = "mark"
    /\ notifications' = updateNotificationStatus(notifications, Head(sched.rows), "processing", dbOk)
    /\ sched' = NextRow
    /\ UNCHANGED <<now, delivery, goroutines, runs, sends, lastUpsert>>
    /\ UNCHANGED <<execFailed, lastIngest, retry, retries, consumer, shutdown, cache, prefsStore, lookups, hints>>

\* ------------------------------------------------------------ retry sweep
\* WHERE nds.status = 'failed' AND nds.attempted_at < NOW() - INTERVAL '5 minutes'
\*   AND n.created_at > NOW() - INTERVAL '24 hours'   (n JOIN nds ON n.id = nds.notification_id)
RetryEligibleNoCooldown(key) ==
    /\ key \in DOMAIN delivery
    /\ key[1] \in DOMAIN notifications
    /\ delivery[key].status = "failed"
    /\ notifications[key[1]].created_at > now - RetryWindow

RetryEligible(key) ==
    /\ key \in DOMAIN delivery
    /\ key[1] \in DOMAIN notifications
    /\ delivery[key].status = "failed"
    /\ delivery[key].attempted_at < now - Cooldown
    /\ notifications[key[1]].created_at > now - RetryWindow

\* ORDER BY n.priority DESC, n.created_at ASC (rows of one notification in any order)
RetryOrder(a, b) ==
    \/ PriorityCollation(notifications[a[1]].priority) > PriorityCollation(notifications[b[1]].priority)
    \/ /\ notifications[a[1]].priority = notifications[b[1]].priority
       /\ notifications[a[1]].created_at <= notifications[b[1]].created_at

RetryBatches ==
    LET eligible == {key \in IDs \X Channels : RetryEligible(key)}
    IN  {SubSeq(s, 1, IF Len(s) < RetryLimit THEN Len(s) ELSE RetryLimit) :
            s \in {p \in Perms(eligible) : \A i, j \in 1..Len(p) : i < j => RetryOrder(p[i], p[j])}}

\* processDeliveryStatus tick: retryFailedNotifications runs its query; on an
\* error it logs ("failed") and returns
RetryQuery(dbOk) ==
    /\ retry.pc = "idle"
    /\ IF dbOk
       THEN \E rows \in RetryBatches : retry' = [pc |-> "process", rows |-> rows]
       ELSE retry' = [pc |-> "failed", rows |-> <<>>]
    /\ UNCHANGED <<now, notifications, delivery, goroutines, sched, runs, sends, lastUpsert>>
    /\ UNCHANGED <<execFailed, lastIngest, retries, consumer, shutdown, cache, prefsStore, lookups, hints>>

RetryReturn ==
    /\ retry.pc = "failed"
    /\ retry' = [pc |-> "idle", rows |-> <<>>]
    /\ UNCHANGED <<now, notifications, delivery, goroutines, sched, runs, sends, lastUpsert>>
    /\ UNCHANGED <<execFailed, lastIngest, retries, consumer, shutdown, cache, prefsStore, lookups, hints>>

\* rows.Next() returns false: the sweep is over
RetryDone ==
    /\ retry.pc = "process"
    /\ retry.rows = <<>>
    /\ retry' = [pc |-> "idle", rows |-> <<>>]
    /\ UNCHANGED <<now, notifications, delivery, goroutines, sched, runs, sends, lastUpsert>>
    /\ UNCHANGED <<execFailed, lastIngest, retries, consumer, shutdown, cache, prefsStore, lookups, hints>>

\* the rows retry sweeps have handled so far
RetryCount ==
    LET RECURSIVE Sum(_)
        Sum(S) == IF S = {} THEN 0
                  ELSE LET key == CHOOSE x \in S : TRUE
                       IN  Len(retries[key]) + Sum(S \ {key})
    IN  Sum(DOMAIN retries)

\* the history of retry rows, with one more entry for each pair of entries
Logged(log, entries) ==
    [k \in DOMAIN log \cup DOMAIN entries |->
        IF k \in DOMAIN entries
        THEN (IF k \in DOMAIN log THEN log[k] ELSE <<>>) \o <<entries[k]>>
        ELSE log[k]]

\* rows.Scan fails: the row is skipped (continue)
RetryScanError ==
    /\ retry.pc = "process"
    /\ retry.rows # <<>>
    /\ RetryCount < MaxRetries
    /\ retry' = [retry EXCEPT !.rows = Tail(@)]
    /\ retries' = Logged(retries, Head(retry.rows) :> "scan")
    /\ UNCHANGED <<now, notifications, delivery, goroutines, sched, runs, sends, lastUpsert>>
    /\ UNCHANGED <<execFailed, lastIngest, consumer, shutdown, cache, prefsStore, lookups, hints>>

\* line 429: the channels a retry row is sent to
RetryTargetsAll(failedChannel) == Channels

RetryTargets(failedChannel) == {failedChannel}

\* the upserts of line 433 for the channels of S
RECURSIVE RetryUpserts(_, _, _, _, _)
RetryUpserts(d, id, S, t, dbFail) ==
    IF S = {} THEN d
    ELSE LET ch == CHOOSE c \in S : TRUE
         IN  RetryUpserts(updateDeliveryStatus(d, id, ch, "delivered", t, ch \notin dbFail),
                          id, S \ {ch}, t, dbFail)

RECURSIVE RetryRecords(_, _, _, _, _)
RetryRecords(lu, id, S, t, dbFail) ==
    IF S = {} THEN lu
    ELSE LET ch == CHOOSE c \in S : TRUE
         IN  RetryRecords(RecordCall(lu, id, ch, "delivered", t, ch \notin dbFail),
                          id, S \ {ch}, t, dbFail)

\* lines 428-435 on the scanned row: one Send on the failed channel if it is
\* available, and the upsert if the Send succeeds
RetryProcess(avs) ==
    /\ retry.pc = "process"
    /\ retry.rows # <<>>
    /\ RetryCount < MaxRetries
    /\ LET id == Head(retry.rows)[1]
           targets == RetryTargets(Head(retry.rows)[2])
       IN  \E av \in {a \cap targets : a \in avs} :
             \E res \in [av -> SendResults] :
               LET okSet == {c \in av : res[c]}
               IN  \E dbFail \in SUBSET okSet :
                     /\ retries' = Logged(retries,
                            [k \in {id} \X targets |->
                                IF k[2] \notin av THEN "unavailable"
                                ELSE IF res[k[2]] THEN "ok" ELSE "error"])
                     /\ delivery' = RetryUpserts(delivery, id, okSet, now, dbFail)
                     /\ lastUpsert' = RetryRecords(lastUpsert, id, okSet, now, dbFail)
                     /\ execFailed' = execFailed \cup ({id} \X dbFail)
    /\ retry' = [retry EXCEPT !.rows = Tail(@)]
    /\ UNCHANGED <<now, notifications, goroutines, sched, runs, sends, lastIngest, consumer, shutdown, cache, prefsStore, lookups, hints>>

\* ------------------------------------------------------------ environment
Tick ==
    /\ now < MaxTime
    /\ now' = now + 1
    /\ UNCHANGED <<notifications, delivery, goroutines, sched, runs, sends, lastUpsert>>
    /\ UNCHANGED <<execFailed, lastIngest, retry, retries, consumer, shutdown, cache, prefsStore, lookups, hints>>

\* time passes, by minutes, up to instant t
Advance(t) ==
    /\ t > now
    /\ now' = t
    /\ UNCHANGED <<notifications, delivery, goroutines, sched, runs, sends, lastUpsert>>
    /\ UNCHANGED <<execFailed, lastIngest, retry, retries, consumer, shutdown, cache, prefsStore, lookups, hints>>

Next ==
    \/ \E id \in 1..MaxNotifs : \E m \in Deliverable(id, DOMAIN notifications), dbOk \in BOOLEAN :
          processNotificationMessage(m, dbOk, AnyAvailability) /\ UNCHANGED <<lastIngest, consumer, hints>>
    \/ \E g \in goroutines, ok \in SendResults, dbOk \in BOOLEAN : GoroutineSend(g, ok, dbOk)
    \/ \E dbOk \in BOOLEAN : PromotionQuery(dbOk)
    \/ PromotionReturn
    \/ PromotionDone
    \/ PromotionScanError
    \/ PromotionProcess(AnyAvailability)
    \/ \E dbOk \in BOOLEAN : PromotionMark(dbOk)
    \/ Tick

Spec == Init /\ [][Next]_vars

\* the same engine while every channel answers IsAvailable() = false
SweepNext ==
    \/ \E id \in 1..MaxBatch : \E m \in Deliverable(id, DOMAIN notifications), dbOk \in BOOLEAN :
          processNotificationMessage(m, dbOk, AllUnavailable) /\ UNCHANGED <<lastIngest, consumer, hints>>
    \/ \E dbOk \in BOOLEAN : PromotionQuery(dbOk)
    \/ PromotionReturn
    \/ PromotionDone
    \/ PromotionScanError
    \/ PromotionProcess(AllUnavailable)
    \/ \E dbOk \in BOOLEAN : PromotionMark(dbOk)
    \/ Tick

SweepSpec == Init /\ [][SweepNext]_vars

\* the ingest path with its history kept: what the last consumed message was,
\* by its content, and what the INSERT answered
EmptyFieldOf(m) ==
    IF m.userID = "" THEN "userID"
    ELSE IF m.title = "" THEN "title"
    ELSE IF m.message = "" THEN "message"
    ELSE IF m.type = "" THEN "type"
    ELSE "none"

MessageClass(m, dbOk) ==
    IF ~m.parseOk THEN "unmarshal"
    ELSE IF EmptyFieldOf(m) # "none" THEN EmptyFieldOf(m)
    ELSE IF ~dbOk \/ m.id \in DOMAIN notifications THEN "insert_error"
    ELSE "inserted"

\* ------------------------------------------------------------ ingest loop
\* the process runs until main returns
Alive == shutdown # "exited"

\* the batches ConsumeMessages may return out of a set of messages
MessageBatches(msgs) == UNION {[1..n -> msgs] : n \in 0..MaxMessages}

\* a select that has no ctx.Done() case
ConsumerSelectNoDone ==
    /\ consumer.pc = "select"
    /\ consumer' = [consumer EXCEPT !.pc = "consume"]
    /\ UNCHANGED <<now, notifications, delivery, goroutines, sched, runs, sends, lastUpsert>>
    /\ UNCHANGED <<execFailed, lastIngest, retry, retries, shutdown, cache, prefsStore, lookups, hints>>

\* the select of consumeNotifications: return once ctx is done, else the
\* default branch
ConsumerSelect ==
    /\ consumer.pc = "select"
    /\ consumer' = [consumer EXCEPT !.pc = IF shutdown = "none" THEN "consume" ELSE "exit"]
    /\ UNCHANGED <<now, notifications, delivery, goroutines, sched, runs, sends, lastUpsert>>
    /\ UNCHANGED <<execFailed, lastIngest, retry, retries, shutdown, cache, prefsStore, lookups, hints>>

\* ConsumeMessages returns an error: logged, continue
ConsumeError ==
    /\ consumer.pc = "consume"
    /\ consumer' = [pc |-> "select", batch |-> <<>>]
    /\ UNCHANGED <<now, notifications, delivery, goroutines, sched, runs, sends, lastUpsert>>
    /\ UNCHANGED <<execFailed, lastIngest, retry, retries, shutdown, cache, prefsStore, lookups, hints>>

\* ConsumeMessages returns a batch (none within its timeout: an empty one)
ConsumeMessages(batch) ==
    /\ consumer.pc = "consume"
    /\ consumer' = [pc |-> IF batch = <<>> THEN "select" ELSE "range", batch |-> batch]
    /\ UNCHANGED <<now, notifications, delivery, goroutines, sched, runs, sends, lastUpsert>>
    /\ UNCHANGED <<execFailed, lastIngest, retry, retries, shutdown, cache, prefsStore, lookups, hints>>

\* one turn of the range over the batch: processNotificationMessage on its
\* next message, then the following message, or the select when none is left
ProcessMessage(dbOk, avs) ==
    /\ consumer.pc = "range"
    /\ consumer.batch # <<>>
    /\ processNotificationMessage(Head(consumer.batch), dbOk, avs)
    /\ lastIngest' = MessageClass(Head(consumer.batch), dbOk)
    /\ UNCHANGED hints
    /\ consumer' = [pc |-> IF Tail(consumer.batch) = <<>> THEN "select" ELSE "range",
                    batch |-> Tail(consumer.batch)]

\* the select of startScheduler once ctx is done
SchedulerExit ==
    /\ sched.pc = "idle"
    /\ shutdown # "none"
    /\ sched' = [pc |-> "exit", rows |-> <<>>]
    /\ UNCHANGED <<now, notifications, delivery, goroutines, runs, sends, lastUpsert>>
    /\ UNCHANGED <<execFailed, lastIngest, retry, retries, consumer, shutdown, cache, prefsStore, lookups, hints>>

\* the select of processDeliveryStatus once ctx is done
RetrierExit ==
    /\ retry.pc = "idle"
    /\ shutdown # "none"
    /\ retry' = [pc |-> "exit", rows |-> <<>>]
    /\ UNCHANGED <<now, notifications, delivery, goroutines, sched, runs, sends, lastUpsert>>
    /\ UNCHANGED <<execFailed, lastIngest, retries, consumer, shutdown, cache, prefsStore, lookups, hints>>

\* main receives SIGINT or SIGTERM and calls cancel()
Cancel ==
    /\ shutdown = "none"
    /\ shutdown' = "cancelled"
    /\ UNCHANGED <<now, notifications, delivery, goroutines, sched, runs, sends, lastUpsert>>
    /\ UNCHANGED <<execFailed, lastIngest, retry, retries, consumer, cache, prefsStore, lookups, hints>>

\* main returns after cancel(): the process is over, with whatever its
\* goroutines were doing
Exit ==
    /\ shutdown = "cancelled"
    /\ shutdown' = "exited"
    /\ UNCHANGED <<now, notifications, delivery, goroutines, sched, runs, sends, lastUpsert>>
    /\ UNCHANGED <<execFailed, lastIngest, retry, retries, consumer, cache, prefsStore, lookups, hints>>

\* the ingest loop with the goroutines it starts, until the process is over
IngestNext ==
    \/ Alive /\ ConsumerSelect
    \/ Alive /\ ConsumeError
    \/ Alive /\ \E batch \in MessageBatches(UNION {IngestMessages(id) : id \in 1..MaxNotifs}) :
                    ConsumeMessages(batch)
    \/ Alive /\ \E dbOk \in BOOLEAN : ProcessMessage(dbOk, AnyAvailability)
    \/ Alive /\ \E g \in goroutines, ok \in SendResults, dbOk \in BOOLEAN : GoroutineSend(g, ok, dbOk)
    \/ Cancel
    \/ Exit

IngestSpec == Init /\ [][IngestNext]_vars

\* the engine with its retry sweep: normal notifications arrive at time 0, the
\* promotion sweep and the retry sweep run as time passes
RetryNext ==
    \/ /\ now = 0
       /\ \E id \in 1..MaxNotifs : \E m \in RetryMessages(id), dbOk \in BOOLEAN :
             processNotificationMessage(m, dbOk, AnyAvailability) /\ UNCHANGED <<lastIngest, consumer, hints>>
    \/ \E dbOk \in BOOLEAN : PromotionQuery(dbOk)
    \/ PromotionReturn
    \/ PromotionDone
    \/ PromotionScanError
    \/ PromotionProcess(AnyAvailability)
    \/ \E dbOk \in BOOLEAN : PromotionMark(dbOk)
    \/ \E dbOk \in BOOLEAN : RetryQuery(dbOk)
    \/ RetryReturn
    \/ RetryDone
    \/ RetryScanError
    \/ RetryProcess(AnyAvailability)
    \/ \E t \in Instants : Advance(t)

RetrySpec == Init /\ [][RetryNext]_vars

\* the messages delivered while the shutdown is studied: an emergency
\* notification due at once, or a message that is dropped
ShutdownMessages(id) ==
    {m \in Messages(id) : m.priority = "" \/ (m.priority = "emergency" /\ m.scheduled_at = 0)}

\* a sweep is run while each row it may return has a fan-out left
SweepBudget == \A rows \in Batches : \A i \in 1..Len(rows) : Len(runs[rows[i]]) < MaxRuns

\* the three tasks of Start and main, every channel unavailable, until the
\* process is over
ShutdownNext ==
    \/ Alive /\ ConsumerSelect
    \/ Alive /\ ConsumeError
    \/ Alive /\ \E batch \in MessageBatches(UNION {ShutdownMessages(id) : id \in 1..MaxNotifs}) :
                    ConsumeMessages(batch)
    \/ Alive /\ \E dbOk \in BOOLEAN : ProcessMessage(dbOk, AllUnavailable)
    \/ Alive /\ SweepBudget /\ \E dbOk \in BOOLEAN : PromotionQuery(dbOk)
    \/ Alive /\ PromotionReturn
    \/ Alive /\ PromotionDone
    \/ Alive /\ PromotionScanError
    \/ Alive /\ PromotionProcess(AllUnavailable)
    \/ Alive /\ \E dbOk \in BOOLEAN : PromotionMark(dbOk)
    \/ Alive /\ SchedulerExit
    \/ Alive /\ \E dbOk \in BOOLEAN : RetryQuery(dbOk)
    \/ Alive /\ RetryReturn
    \/ Alive /\ RetryDone
    \/ Alive /\ RetrierExit
    \/ Cancel
    \/ Exit

\* the scheduling the Go runtime gives the tasks: a call that was made
\* returns and the loop takes its next step; a select that finds ctx done
\* time and again takes that case in the end (select picks at random among
\* its ready cases); nothing says when the signal comes or when main returns
ShutdownSpec ==
    /\ Init /\ [][ShutdownNext]_vars
    /\ WF_vars(Alive /\ ConsumerSelect)
    /\ WF_vars(Alive /\ (ConsumeError \/ \E batch \in MessageBatches(UNION {ShutdownMessages(id) : id \in 1..MaxNotifs}) : ConsumeMessages(batch)))
    /\ WF_vars(Alive /\ \E dbOk \in BOOLEAN : ProcessMessage(dbOk, AllUnavailable))
    /\ WF_vars(Alive /\ PromotionReturn)
    /\ WF_vars(Alive /\ PromotionDone)
    /\ WF_vars(Alive /\ (PromotionScanError \/ PromotionProcess(AllUnavailable)))
    /\ WF_vars(Alive /\ \E dbOk \in BOOLEAN : PromotionMark(dbOk))
    /\ SF_vars(Alive /\ SchedulerExit)
    /\ WF_vars(Alive /\ RetryReturn)
    /\ WF_vars(Alive /\ RetryDone)
    /\ SF_vars(Alive /\ RetrierExit)

\* the paths that send: the fan-out of each priority at ingest, at time 0, and
\* the retry sweep once the cooldown has passed
AllPathsNext ==
    \/ /\ now = 0
       /\ \E id \in 1..MaxNotifs : \E m \in {x \in Deliverable(id, DOMAIN notifications) : x.scheduled_at = NoTime},
                                     dbOk \in BOOLEAN :
             processNotificationMessage(m, dbOk, AnyAvailability) /\ UNCHANGED <<lastIngest, consumer, hints>>
    \/ \E g \in goroutines, ok \in SendResults, dbOk \in BOOLEAN : GoroutineSend(g, ok, dbOk)
    \/ \E dbOk \in BOOLEAN : RetryQuery(dbOk)
    \/ RetryReturn
    \/ RetryDone
    \/ RetryScanError
    \/ RetryProcess(AnyAvailability)
    \/ Advance(Cooldown + 1)

AllPathsSpec == Init /\ [][AllPathsNext]_vars

\* ------------------------------------------------------------ channel hint
\* the Channels list a message may carry: none, or one naming email
HintChoices == {<<>>, <<"email">>}

\* the messages delivered while the Channels list is studied: to be delivered
\* now, of each known priority, with each list
HintMessages(id) ==
    [ id : {id}, parseOk : {TRUE}, userID : {"u"}, title : {"t"}, message : {"m"},
      type : {"alert"}, priority : {"emergency", "high", "normal"}, scheduled_at : {NoTime},
      channels : HintChoices ]

WithHint(m, h) == [m EXCEPT !.channels = h]

\* a fan-out that keeps to the channels the message lists, when it lists any
ConsideredHinted(m, av) == IF m.channels = <<>> THEN av ELSE av \cap SeqToSet(m.channels)

\* the channels a fan-out of message m may send on, av being the registered
\* channels that answer available: the fan-outs look up s.channels and ask
\* IsAvailable(), and never read notification.Channels
Considered(m, av) == av

\* processNotificationMessage on a message that carries a Channels list
HintIngest(m, dbOk, av) ==
    /\ processNotificationMessage(m, dbOk, {Considered(m, av)})
    /\ UNCHANGED <<lastIngest, consumer>>

\* the ingest of messages with their Channels list, and the goroutines of the
\* broadcasts
HintNext ==
    \/ \E id \in 1..MaxNotifs : \E m \in HintMessages(id), dbOk \in BOOLEAN, av \in AnyAvailability :
          /\ HintIngest(m, dbOk, av)
          /\ hints' = IF MessageClass(m, dbOk) = "inserted"
                      THEN hints @@ (m.id :> [hint |-> m.channels, av |-> av])
                      ELSE hints
    \/ \E g \in goroutines, ok \in SendResults, dbOk \in BOOLEAN : GoroutineSend(g, ok, dbOk)

HintSpec == Init /\ [][HintNext]_vars

\* ------------------------------------------------------------ preference cache
\* json.Marshal of a preference map and json.Unmarshal of the cached string:
\* the string holds the key/value pairs of the map
MarshalPrefs(p) == {<<k, p[k]>> : k \in DOMAIN p}

UnmarshalPrefs(j) == [k \in {x[1] : x \in j} |-> CHOOSE b \in BOOLEAN : <<k, b>> \in j]

\* a cache that never answers with its entry
CacheHitNever(c, t) == FALSE

\* redis answers a Get with the value of a key that is set and has not expired
CacheHit(c, t) == c # <<>> /\ t < c[1].expires

\* s.redis.Get (lines 229-234): on a value, return it; on redis.Nil or on any
\* other error go on to the store
LookupGet(task, getOk) ==
    /\ lookups[task].pc = "idle"
    /\ lookups' = [lookups EXCEPT ![task] =
          IF getOk /\ CacheHit(cache, now)
          THEN [pc |-> "done", saw |-> "hit", live |-> TRUE,
                map |-> UnmarshalPrefs(cache[1].value), queried |-> FALSE]
          ELSE [pc |-> "query", saw |-> IF getOk THEN "miss" ELSE "error",
                live |-> (cache # <<>> /\ now < cache[1].expires),
                map |-> <<>>, queried |-> FALSE]]
    /\ UNCHANGED <<now, notifications, delivery, goroutines, sched, runs, sends, lastUpsert>>
    /\ UNCHANGED <<execFailed, lastIngest, retry, retries, consumer, shutdown, cache, prefsStore, hints>>

\* QueryRow/Scan and json.Unmarshal (lines 243-252): an error is returned
\* to the caller, a map goes on to be cached
LookupQuery(task, dbOk) ==
    /\ lookups[task].pc = "query"
    /\ lookups' = [lookups EXCEPT ![task] =
          [@ EXCEPT !.pc = IF dbOk THEN "set" ELSE "done",
                    !.map = IF dbOk THEN prefsStore ELSE <<>>,
                    !.queried = TRUE]]
    /\ UNCHANGED <<now, notifications, delivery, goroutines, sched, runs, sends, lastUpsert>>
    /\ UNCHANGED <<execFailed, lastIngest, retry, retries, consumer, shutdown, cache, prefsStore, hints>>

\* SetEX(cacheKey, marshalled map, time.Hour) (lines 255-256); its error is
\* not looked at
LookupSetEX(task, setOk) ==
    /\ lookups[task].pc = "set"
    /\ cache' = IF setOk
                THEN <<[value |-> MarshalPrefs(lookups[task].map), expires |-> now + TTL]>>
                ELSE cache
    /\ lookups' = [lookups EXCEPT ![task].pc = "done"]
    /\ UNCHANGED <<now, notifications, delivery, goroutines, sched, runs, sends, lastUpsert>>
    /\ UNCHANGED <<execFailed, lastIngest, retry, retries, consumer, shutdown, prefsStore, hints>>

\* the call returns to processRegularNotification
LookupReturn(task) ==
    /\ lookups[task].pc = "done"
    /\ lookups' = [lookups EXCEPT ![task] = IdleLookup]
    /\ UNCHANGED <<now, notifications, delivery, goroutines, sched, runs, sends, lastUpsert>>
    /\ UNCHANGED <<execFailed, lastIngest, retry, retries, consumer, shutdown, cache, prefsStore, hints>>

\* the user's preferences are changed in the store, outside the engine
UpdatePrefs(p) ==
    /\ p # prefsStore
    /\ prefsStore' = p
    /\ UNCHANGED <<now, notifications, delivery, goroutines, sched, runs, sends, lastUpsert>>
    /\ UNCHANGED <<execFailed, lastIngest, retry, retries, consumer, shutdown, cache, lookups, hints>>

\* the preference lookups of the two tasks for one user, as time passes
CacheNext ==
    \/ \E task \in LookupTasks, getOk \in BOOLEAN : LookupGet(task, getOk)
    \/ \E task \in LookupTasks, dbOk \in BOOLEAN : LookupQuery(task, dbOk)
    \/ \E task \in LookupTasks, setOk \in BOOLEAN : LookupSetEX(task, setOk)
    \/ \E task \in LookupTasks : LookupReturn(task)
    \/ \E p \in UserPrefChoices : UpdatePrefs(p)
    \/ \E t \in CacheInstants : Advance(t)

CacheSpec == Init /\ [][CacheNext]_vars

\* the engine under the scheduling the Go runtime and the tickers give: a
\* started goroutine runs, the sweep ticks and goes on, time passes
FairSpec ==
    /\ Spec
    /\ WF_vars(Tick)
    /\ WF_vars(\E g \in goroutines, ok \in SendResults, dbOk \in BOOLEAN : GoroutineSend(g, ok, dbOk))
    /\ WF_vars(\E dbOk \in BOOLEAN : PromotionQuery(dbOk))
    /\ WF_vars(PromotionReturn)
    /\ WF_vars(PromotionDone)
    /\ WF_vars(PromotionScanError \/ PromotionProcess(AnyAvailability))
    /\ WF_vars(\E dbOk \in BOOLEAN : PromotionMark(dbOk))

\* ------------------------------------------------------------ properties
Stored == DOMAIN notifications

RunsOf(id) == 1..Len(runs[id])

SendsOfRun(id, r) == {c \in sends[id] : c.run = r}

SendsOn(id, r, ch) == {c \in sends[id] : c.run = r /\ c.ch = ch}

InFlight(id, r) == {g \in goroutines : g.id = id /\ g.run = r}

InFlightOn(id, r, ch) == {g \in goroutines : g.id = id /\ g.run = r /\ g.ch = ch}

\* C1: every fan-out of an emergency notification with at least one available
\* channel gives each available channel of {push, sms, email} exactly one Send
\* (issued, or pending in its goroutine), gives an unavailable channel none,
\* and looks up no preferences
C1_EmergencyBroadcast ==
    \A id \in Stored : \A r \in RunsOf(id) :
        (notifications[id].priority = "emergency" /\ runs[id][r].avail # {}) =>
            /\ runs[id][r].lookup = "none"
            /\ \A ch \in Channels :
                  Cardinality(SendsOn(id, r, ch)) + Cardinality(InFlightOn(id, r, ch))
                      = IF ch \in runs[id][r].avail THEN 1 ELSE 0

C1_Witness ==
    \E id \in Stored : \E r \in RunsOf(id) :
        /\ notifications[id].priority = "emergency"
        /\ runs[id][r].avail = {"push", "email"}
        /\ InFlight(id, r) = {}
        /\ {c.ch : c \in SendsOfRun(id, r)} = {"push", "email"}
        /\ Cardinality(SendsOfRun(id, r)) = 2

\* C2: in a fan-out of a high notification the Sends go push before sms, and
\* no Send follows a successful one: after a successful push there is none on
\* sms or email, after a successful sms none on email
C2_HighShortCircuit ==
    \A id \in Stored : \A r \in RunsOf(id) :
        notifications[id].priority = "high" =>
            \A c \in SendsOfRun(id, r) :
                /\ c.ok => \A d \in SendsOfRun(id, r) : d.k <= c.k
                /\ (c.ch = "push" /\ c.ok) => SendsOfRun(id, r) = {c}
                /\ (c.ch = "sms" /\ c.ok) => SendsOn(id, r, "email") = {}
                /\ c.ch = "sms" => \A d \in SendsOn(id, r, "push") : d.k < c.k /\ ~d.ok

C2_Witness ==
    \E id \in Stored : \E r \in RunsOf(id) :
        /\ notifications[id].priority = "high"
        /\ \E c \in SendsOn(id, r, "push") : ~c.ok /\ c.k = 1
        /\ \E c \in SendsOn(id, r, "sms") : c.ok /\ c.k = 2
        /\ Cardinality(SendsOfRun(id, r)) = 2

\* C3: in a fan-out of a high notification where neither push nor sms had a
\* successful Send, an available email gets exactly one Send, after all the
\* others, and an unavailable email gets none
C3_HighEmailFallback ==
    \A id \in Stored : \A r \in RunsOf(id) :
        (/\ notifications[id].priority = "high"
         /\ ~\E c \in SendsOfRun(id, r) : c.ch \in {"push", "sms"} /\ c.ok) =>
            IF "email" \in runs[id][r].avail
            THEN /\ Cardinality(SendsOn(id, r, "email")) = 1
                 /\ \A c \in SendsOn(id, r, "email") : \A d \in SendsOfRun(id, r) : d.k <= c.k
            ELSE SendsOn(id, r, "email") = {}

C3_Witness ==
    \E id \in Stored : \E r \in RunsOf(id) :
        /\ notifications[id].priority = "high"
        /\ runs[id][r].avail = {"push", "email"}
        /\ \E c \in SendsOn(id, r, "push") : ~c.ok /\ c.k = 1
        /\ \E c \in SendsOn(id, r, "email") : c.k = 2
        /\ Cardinality(SendsOfRun(id, r)) = 2

\* C4: in a fan-out of a normal notification every channel that the resolved
\* preference map enables and that is available gets exactly one Send, whatever
\* the outcome of the other Sends, and a channel the map disables gets none
C4_NormalFollowsPreferences ==
    \A id \in Stored : \A r \in RunsOf(id) :
        notifications[id].priority = "normal" =>
            \A ch \in Channels :
                Cardinality(SendsOn(id, r, ch))
                    = IF /\ ch \in DOMAIN runs[id][r].prefs
                         /\ runs[id][r].prefs[ch]
                         /\ ch \in runs[id][r].avail
                      THEN 1 ELSE 0

C4_Witness ==
    \E id \in Stored : \E r \in RunsOf(id) :
        /\ notifications[id].priority = "normal"
        /\ runs[id][r].lookup = "ok"
        /\ runs[id][r].prefs = [k \in {"email", "sms"} |-> (k = "email")]
        /\ Cardinality(SendsOn(id, r, "email")) = 1
        /\ SendsOn(id, r, "sms") = {}

\* C5: while the scheduled_at of a notification is in the future it is pending
\* and no Send has been issued or started for it
C5_NoSendBeforeScheduledAt ==
    \A id \in Stored :
        (notifications[id].scheduled_at # NoTime /\ notifications[id].scheduled_at > now) =>
            /\ notifications[id].status = "pending"
            /\ sends[id] = {}
            /\ \A g \in goroutines : g.id # id

\* a notification the promotion query is to select at time t
IsDue(id, t) ==
    /\ id \in Stored
    /\ notifications[id].status = "pending"
    /\ notifications[id].scheduled_at # NoTime
    /\ notifications[id].scheduled_at <= t

\* C6 as claimed: a promotion sweep that runs takes every notification that is
\* pending and due into its batch, however many there are, and lets no row of
\* the batch go without fanning it out
C6_EverySweepProcessesAllDue ==
    /\ [][(sched.pc = "idle" /\ sched'.pc # "idle") =>
             \A id \in IDs : IsDue(id, now) => id \in SeqToSet(sched'.rows)]_vars
    /\ [][(sched.rows # <<>> /\ sched'.rows # sched.rows) => sched.pc = "mark"]_vars

\* C6 as amended: a promotion sweep whose query succeeds takes every
\* notification that is pending and due into its batch, as long as no more
\* than the query's LIMIT are due; a row leaves the batch only fanned out
\* once by the sweep, or on a failed scan
C6_SuccessfulSweepTakesAllDue ==
    /\ [][(sched.pc = "idle" /\ sched'.pc = "process") =>
             (Cardinality({id \in IDs : IsDue(id, now)}) <= PromotionLimit =>
                 \A id \in IDs : IsDue(id, now) => id \in SeqToSet(sched'.rows))]_vars
    /\ [][(sched.pc = "process" /\ sched'.pc = "mark") =>
             LET id == Head(sched.rows)
             IN  /\ Len(runs'[id]) = Len(runs[id]) + 1
                 /\ runs'[id][Len(runs'[id])].path = "promote"]_vars
    /\ [][(sched.rows # <<>> /\ sched'.rows # sched.rows) => sched.pc \in {"mark", "process"}]_vars

C6_Witness ==
    /\ sched.pc = "process"
    /\ Len(sched.rows) = 2
    /\ \A id \in SeqToSet(sched.rows) : IsDue(id, now)

\* C7: the record of a (notification, channel) pair carries the status and
\* the attempted_at of the last upsert the store executed for the pair
C7_RecordReflectsLastUpsert ==
    \A key \in DOMAIN lastUpsert :
        /\ key \in DOMAIN delivery
        /\ delivery[key] = lastUpsert[key]

\* C8: once the emergency fan-out of a notification has returned (it is in the
\* history of fan-outs), none of the Sends it started is still pending
C8_BroadcastJoins ==
    \A id \in IDs : \A r \in RunsOf(id) : InFlight(id, r) = {}

FinalStatus == {"delivered", "partially_delivered", "failed"}

\* the processing of a notification is over: a fan-out was made, none of its
\* Sends is pending and the sweep is not between its fan-out and its status update
ProcessingOver(id) ==
    /\ id \in Stored
    /\ runs[id] # <<>>
    /\ \A g \in goroutines : g.id # id
    /\ ~(sched.pc = "mark" /\ Head(sched.rows) = id)

\* C9: a notification whose processing is over has a final status, which is
\* failed exactly when no Send of its last fan-out succeeded
C9_FinalStatusSet ==
    \A id \in IDs : ProcessingOver(id) =>
        /\ notifications[id].status \in FinalStatus
        /\ notifications[id].status = "failed" <=>
               ~\E c \in SendsOfRun(id, Len(runs[id])) : c.ok

\* C10: a notification whose processing has started eventually has a final status
C10_EventuallyFinal ==
    \A id \in IDs :
        [](runs[id] # <<>> => <>(id \in Stored /\ notifications[id].status \in FinalStatus))

KnownPriorities == {"emergency", "high", "normal"}

\* C11: a notification whose priority is none of emergency, high, normal is
\* never persisted and never fanned out: every stored notification, and every
\* notification with a fan-out or a Send, has a known priority
C11_UnknownPriorityRejected ==
    \A id \in IDs :
        (id \in Stored \/ runs[id] # <<>> \/ sends[id] # {}) =>
            (id \in Stored /\ notifications[id].priority \in KnownPriorities)

\* C12: consuming a message whose recipient, title, body or type is empty
\* leaves the notifications table and the delivery-status table as they were
\* and issues or starts no Send
C12_EmptyFieldRejected ==
    [][(lastIngest' # lastIngest /\ lastIngest' \in {"userID", "title", "message", "type"}) =>
          UNCHANGED <<notifications, delivery, goroutines, sends, runs, lastUpsert>>]_vars

C12_Witness ==
    /\ lastIngest = "title"
    /\ \E id \in Stored : sends[id] # {} /\ \E ch \in Channels : <<id, ch>> \in DOMAIN delivery

\* C13: a fan-out in which no channel that was asked is available issues no
\* Send and leaves the notification with status failed
C13_NoViableChannelFails ==
    \A id \in Stored : \A r \in RunsOf(id) :
        runs[id][r].avail = {} =>
            /\ SendsOfRun(id, r) = {}
            /\ InFlight(id, r) = {}
            /\ notifications[id].status = "failed"

\* C14: whatever the priority, every Send that returned an error has a record
\* for its (notification, channel) pair, unless an upsert of that pair was
\* refused by the store
C14_FailedSendRecorded ==
    \A id \in IDs : \A c \in sends[id] :
        (~c.ok /\ <<id, c.ch>> \notin execFailed) => <<id, c.ch>> \in DOMAIN delivery

\* the history of the retry rows of a pair, and the Sends among them
LogOf(log, key) == IF key \in DOMAIN log THEN log[key] ELSE <<>>

RetrySends(log, key) ==
    Cardinality({i \in 1..Len(LogOf(log, key)) : LogOf(log, key)[i] \in {"ok", "error"}})

Pairs == IDs \X Channels

\* an attempt the retry query is to select at time t
IsRetryEligible(key, t) ==
    /\ key \in DOMAIN delivery
    /\ key[1] \in Stored
    /\ delivery[key].status = "failed"
    /\ delivery[key].attempted_at < t - Cooldown
    /\ notifications[key[1]].created_at > t - RetryWindow

\* C15 as claimed: a retry sweep that runs takes every eligible attempt into
\* its batch (no more than the batch bound being eligible), and every row of
\* the batch is sent again exactly once
C15_EverySweepResendsEligibleOnce ==
    /\ [][(retry.pc = "idle" /\ retry'.pc # "idle") =>
             (Cardinality({key \in Pairs : IsRetryEligible(key, now)}) <= RetryLimit =>
                 \A key \in Pairs : IsRetryEligible(key, now) => key \in SeqToSet(retry'.rows))]_vars
    /\ [][(retry.rows # <<>> /\ retry'.rows # retry.rows) =>
             RetrySends(retries', Head(retry.rows)) = RetrySends(retries, Head(retry.rows)) + 1]_vars

\* C15 as amended: a retry sweep whose query succeeds has in its batch exactly
\* the eligible attempts (no more than the batch bound being eligible), each
\* once; a row leaves the batch in one step that sends it again at most once:
\* once, or not at all when its channel is unavailable or its scan fails
C15_SuccessfulSweepSelectsEligibleOnce ==
    /\ [][(retry.pc = "idle" /\ retry'.pc = "process") =>
             /\ \A i, j \in 1..Len(retry'.rows) : i # j => retry'.rows[i] # retry'.rows[j]
             /\ Cardinality({key \in Pairs : IsRetryEligible(key, now)}) <= RetryLimit =>
                    SeqToSet(retry'.rows) = {key \in Pairs : IsRetryEligible(key, now)}]_vars
    /\ [][(retry.rows # <<>> /\ retry'.rows # retry.rows) =>
             LET key == Head(retry.rows)
             IN  /\ retry'.rows = Tail(retry.rows)
                 /\ Len(LogOf(retries', key)) = Len(LogOf(retries, key)) + 1
                 /\ RetrySends(retries', key) =
                        RetrySends(retries, key) +
                            (IF LogOf(retries', key)[Len(LogOf(retries', key))] \in {"unavailable", "scan"}
                             THEN 0 ELSE 1)]_vars

C15_Witness ==
    /\ retry.pc = "process"
    /\ Len(retry.rows) = 1
    /\ \E key \in Pairs :
          /\ key # Head(retry.rows)
          /\ key[1] = Head(retry.rows)[1]
          /\ LogOf(retries, key) = <<"error">>
          /\ IsRetryEligible(key, now)

\* C16: the step that handles the retry row of a (notification, channel) pair
\* issues no Send on another channel and leaves the records of every other
\* pair as they were
C16_RetryOnlyFailedChannel ==
    [][(retry.rows # <<>> /\ retry'.rows # retry.rows) =>
          /\ \A k \in Pairs \ {Head(retry.rows)} :
                /\ LogOf(retries', k) = LogOf(retries, k)
                /\ k \in DOMAIN delivery' <=> k \in DOMAIN delivery
                /\ k \in DOMAIN delivery => delivery'[k] = delivery[k]
          /\ sends' = sends
          /\ goroutines' = goroutines]_vars

C16_Witness ==
    \E key \in Pairs, other \in Pairs :
        /\ key[1] = other[1]
        /\ key[2] # other[2]
        /\ LogOf(retries, key) = <<"ok">>
        /\ other \in DOMAIN delivery
        /\ delivery[other].status = "failed"

\* C17: after a retry Send on a pair, failed or successful, the record of the
\* pair carries the time of that retry as attempted_at, unless the store
\* refused an upsert of the pair
C17_RetryOutcomeUpserted ==
    [][\A key \in Pairs :
          (RetrySends(retries', key) > RetrySends(retries, key) /\ key \notin execFailed') =>
              /\ key \in DOMAIN delivery'
              /\ delivery'[key].attempted_at = now]_vars

\* a notification older than the retry window
Old(id) == id \in Stored /\ notifications[id].created_at <= now - RetryWindow

RecordsOf(d, id) == [ch \in {c \in Channels : <<id, c>> \in DOMAIN d} |-> d[<<id, ch>>]]

\* C18: no step changes the row or a delivery record of a notification that is
\* older than the retry window, or issues a retry Send for it
C18_FrozenAfterWindow ==
    [][\A id \in IDs : Old(id) =>
          /\ notifications'[id] = notifications[id]
          /\ RecordsOf(delivery', id) = RecordsOf(delivery, id)
          /\ \A ch \in Channels : RetrySends(retries', <<id, ch>>) = RetrySends(retries, <<id, ch>>)]_vars

\* C19: a notification that a promotion sweep has fanned out is no longer
\* pending, and at most one fan-out of a notification comes from a promotion
C19_MarkedBeforeHandoff ==
    \A id \in Stored :
        LET promoted == {r \in RunsOf(id) : runs[id][r].path = "promote"}
        IN  /\ promoted # {} => notifications[id].status # "pending"
            /\ Cardinality(promoted) <= 1

PriorityRank(p) ==
    CASE p = "emergency" -> 3 [] p = "high" -> 2 [] p = "normal" -> 1 [] OTHER -> 0

\* C20: in the batch of a promotion sweep, among the notifications of known
\* priority, emergency comes before high and high before normal, and within a
\* priority the earlier scheduled_at comes first
C20_BatchByPriorityDescending ==
    [][(sched.pc = "idle" /\ sched'.pc = "process") =>
          \A i, j \in 1..Len(sched'.rows) :
              (/\ i < j
               /\ notifications[sched'.rows[i]].priority \in KnownPriorities
               /\ notifications[sched'.rows[j]].priority \in KnownPriorities) =>
                  \/ PriorityRank(notifications[sched'.rows[i]].priority) >
                         PriorityRank(notifications[sched'.rows[j]].priority)
                  \/ /\ notifications[sched'.rows[i]].priority = notifications[sched'.rows[j]].priority
                     /\ notifications[sched'.rows[i]].scheduled_at <=
                            notifications[sched'.rows[j]].scheduled_at]_vars

\* C21: a fan-out of a normal notification whose preference lookup failed sends
\* exactly once on email when email is available, not at all when it is not,
\* and never on another channel; the notification is not marked failed
C21_LookupFailureDefaultsToEmail ==
    \A id \in Stored : \A r \in RunsOf(id) :
        (notifications[id].priority = "normal" /\ runs[id][r].lookup = "error") =>
            /\ notifications[id].status # "failed"
            /\ \A ch \in Channels :
                  Cardinality(SendsOn(id, r, ch))
                      = IF ch = "email" /\ "email" \in runs[id][r].avail THEN 1 ELSE 0

C21_Witness ==
    \E id \in Stored : \E r \in RunsOf(id) :
        /\ notifications[id].priority = "normal"
        /\ runs[id][r].lookup = "error"
        /\ Cardinality(SendsOfRun(id, r)) = 1
        /\ \E c \in SendsOfRun(id, r) : c.ch = "email"

\* the steps the status of a notification may take
FinalStatuses == {"delivered", "partially_delivered", "failed"}

StatusStep(s, t) ==
    \/ s = t
    \/ s = "pending" /\ t = "processing"
    \/ s = "processing" /\ t \in FinalStatuses
    \/ s \in {"failed", "partially_delivered"} /\ t = "processing"

\* C22: a notification is stored as pending, and every step leaves its status
\* alone or takes it from pending to processing, from processing to delivered,
\* partially_delivered or failed, or from failed or partially_delivered back
\* to processing; no step takes it back to pending
C22_StatusOnlyForward ==
    [][\A id \in DOMAIN notifications' :
          IF id \in DOMAIN notifications
          THEN /\ StatusStep(notifications[id].status, notifications'[id].status)
               /\ notifications[id].status # "pending" => notifications'[id].status # "pending"
          ELSE notifications'[id].status = "pending"]_vars

C22_Witness ==
    \E id \in Stored : notifications[id].status = "processing" /\ runs[id] # <<>>

\* C23: a retry row whose Send succeeds leaves the notification with a status
\* that sums up its delivery attempts: delivered, partially_delivered or failed
C23_StatusRecomputedAfterRetry ==
    [][\A key \in Pairs :
          (/\ Len(LogOf(retries', key)) = Len(LogOf(retries, key)) + 1
           /\ LogOf(retries', key)[Len(LogOf(retries', key))] = "ok") =>
              notifications'[key[1]].status \in FinalStatuses]_vars

\* what a sweep acts on: the notifications, the attempts, the Sends
SweepData == <<notifications, delivery, goroutines, sends>>

\* C24: a promotion sweep or a retry sweep whose query fails changes no
\* notification, no attempt and issues no Send, and its task goes back to
\* waiting for the next tick
C24_FailedQuerySkipsSweep ==
    /\ [][(sched.pc # "failed" /\ sched'.pc = "failed") =>
             sched.pc = "idle" /\ sched'.rows = <<>> /\ UNCHANGED SweepData]_vars
    /\ [][(sched.pc = "failed" /\ sched' # sched) =>
             sched' = [pc |-> "idle", rows |-> <<>>] /\ UNCHANGED SweepData]_vars
    /\ [][(retry.pc # "failed" /\ retry'.pc = "failed") =>
             retry.pc = "idle" /\ retry'.rows = <<>> /\ UNCHANGED SweepData]_vars
    /\ [][(retry.pc = "failed" /\ retry' # retry) =>
             retry' = [pc |-> "idle", rows |-> <<>>] /\ UNCHANGED SweepData]_vars

C24_Witness ==
    /\ sched.pc = "failed"
    /\ retry.pc = "failed"
    /\ \E key \in Pairs : IsRetryEligible(key, now)

\* C29 as claimed: in every fan-out of an emergency notification each
\* available channel gets its one Send whatever the other Sends return, and a
\* Send that succeeded, its upsert executed, has its attempt recorded delivered
C29_BroadcastSiblingsIndependent ==
    \A id \in Stored : \A r \in RunsOf(id) :
        notifications[id].priority = "emergency" =>
            /\ \A ch \in runs[id][r].avail :
                  Cardinality(SendsOn(id, r, ch)) + Cardinality(InFlightOn(id, r, ch)) = 1
            /\ \A c \in SendsOfRun(id, r) :
                  (c.ok /\ <<id, c.ch>> \notin execFailed) =>
                      /\ <<id, c.ch>> \in DOMAIN delivery
                      /\ delivery[<<id, c.ch>>].status = "delivered"

\* the successful Sends of a notification on a channel, over all its fan-outs
OkSendsOn(id, ch) == {c \in sends[id] : c.ch = ch /\ c.ok}

\* C30: the upsert of one goroutine of a broadcast leaves the attempt of every
\* other channel as it was, and once the goroutines of the fan-outs are over
\* each channel with a successful Send has its own attempt, recorded delivered
\* when that Send is the only one to have written it
C30_ConcurrentUpsertsIndependent ==
    /\ [][\A g \in goroutines :
             goroutines' = goroutines \ {g} =>
                 \A key \in DOMAIN delivery :
                     key # <<g.id, g.ch>> =>
                         key \in DOMAIN delivery' /\ delivery'[key] = delivery[key]]_vars
    /\ [](\A id \in Stored :
            (notifications[id].priority = "emergency" /\ \A g \in goroutines : g.id # id) =>
                \A ch \in Channels :
                    (OkSendsOn(id, ch) # {} /\ <<id, ch>> \notin execFailed) =>
                        /\ <<id, ch>> \in DOMAIN delivery
                        /\ Cardinality(OkSendsOn(id, ch)) = 1 =>
                               delivery[<<id, ch>>].status = "delivered")

C30_Witness ==
    \E id \in Stored :
        /\ notifications[id].priority = "emergency"
        /\ \A g \in goroutines : g.id # id
        /\ Len(runs[id]) = 1
        /\ Cardinality({c \in sends[id] : c.ok}) = 2
        /\ \A c \in sends[id] : c.ok => <<id, c.ch>> \in DOMAIN delivery

\* one turn of the range of the ingest loop, and where the loop stands after it
RangeTurn == consumer.pc = "range" /\ consumer' # consumer

LoopGoesOn ==
    consumer' = [pc |-> IF Tail(consumer.batch) = <<>> THEN "select" ELSE "range",
                 batch |-> Tail(consumer.batch)]

\* C25: when the store of a consumed notification fails, no Send is issued or
\* started for it, no attempt is written and no fan-out is entered, and the
\* loop goes on with the following message of the batch, or with the select
C25_StoreErrorAbortsOne ==
    [][(RangeTurn /\ lastIngest' = "insert_error") =>
          /\ UNCHANGED <<notifications, delivery, goroutines, sends, runs>>
          /\ LoopGoesOn]_vars

C25_Witness ==
    /\ lastIngest = "insert_error"
    /\ notifications = <<>>
    /\ consumer.pc = "range"
    /\ Head(consumer.batch).parseOk
    /\ EmptyFieldOf(Head(consumer.batch)) = "none"

\* C26: a consumed message that does not unmarshal stores nothing, issues and
\* starts no Send, writes no attempt, leaves the batch for good, and the loop
\* goes on with the following message of the batch, or with the select
C26_MalformedDropped ==
    [][(RangeTurn /\ ~Head(consumer.batch).parseOk) =>
          /\ UNCHANGED <<notifications, delivery, goroutines, sends, runs>>
          /\ LoopGoesOn]_vars

C26_Witness ==
    /\ lastIngest = "unmarshal"
    /\ notifications = <<>>
    /\ consumer.pc = "range"
    /\ Head(consumer.batch).parseOk
    /\ Head(consumer.batch).priority = "emergency"

\* C28: once the process is over no started Send is left without its outcome
C28_NoExitWithSendInFlight ==
    shutdown = "exited" => goroutines = {}

\* the three tasks have returned
TasksExited == consumer.pc = "exit" /\ sched.pc = "exit" /\ retry.pc = "exit"

\* C27: a task returns only once the signal is raised, a task that has
\* returned takes no further step (the ingest loop stores no new notification,
\* a sweep task runs no new sweep), and once the signal is raised the three
\* tasks return, or the process is over before they do
C27_TasksExitAfterCancel ==
    /\ []((consumer.pc = "exit" \/ sched.pc = "exit" \/ retry.pc = "exit") => shutdown # "none")
    /\ [][consumer.pc = "exit" =>
             consumer' = consumer /\ DOMAIN notifications' = DOMAIN notifications]_vars
    /\ [][sched.pc = "exit" => sched' = sched]_vars
    /\ [][retry.pc = "exit" => retry' = retry]_vars
    /\ (shutdown = "cancelled") ~> (shutdown = "exited" \/ TasksExited)

C27_Witness ==
    /\ shutdown = "cancelled"
    /\ TasksExited
    /\ \E id \in Stored : notifications[id].status = "processing"

\* the Sends of a notification on a channel over its fan-outs, issued or pending
FanOutSendsOn(id, ch) ==
    Cardinality({c \in sends[id] : c.ch = ch}) + Cardinality({g \in goroutines : g.id = id /\ g.ch = ch})

\* C34: over the ingest path and the promotion sweeps no channel gets a second
\* Send of a fan-out for the same notification
C34_FannedOutAtMostOnce ==
    \A id \in Stored : \A ch \in Channels : FanOutSendsOn(id, ch) <= 1

\* C36: a pair whose retry Send succeeded, its upsert executed, has its attempt
\* recorded delivered, is in the batch of no later sweep and is not sent again
C36_RetrySuccessIsFinal ==
    \A key \in Pairs :
        LET log == LogOf(retries, key)
        IN  (key \notin execFailed /\ \E i \in 1..Len(log) : log[i] = "ok") =>
                /\ key \in DOMAIN delivery
                /\ delivery[key].status = "delivered"
                /\ log[Len(log)] = "ok"
                /\ key \notin SeqToSet(retry.rows)

\* the fan-outs the promotion sweep has made of a notification
PromoteRuns(id) == {r \in RunsOf(id) : runs[id][r].path = "promote"}

\* C37: a promotion sweep does not select a notification that an earlier
\* sweep has fanned out, also when the update to processing failed
C37_FailedMarkNoSecondFanOut ==
    [][(sched.pc = "idle" /\ sched'.pc = "process") =>
          \A i \in 1..Len(sched'.rows) : PromoteRuns(sched'.rows[i]) = {}]_vars

\* the record of a pair, if it has one
RecordOf(d, key) == IF key \in DOMAIN d THEN <<d[key]>> ELSE <<>>

\* C33: a Send is issued or started only on a channel that answered available
\* in its fan-out; a fan-out writes no attempt for a channel that did not; and
\* a retry row whose channel is unavailable issues no Send and leaves every
\* attempt as it was
C33_UnavailableChannelUntouched ==
    /\ [](\A id \in IDs :
            /\ \A c \in sends[id] : c.ch \in runs[id][c.run].avail
            /\ \A g \in goroutines : g.id = id => g.ch \in runs[id][g.run].avail)
    /\ [][\A id \in IDs :
             Len(runs'[id]) = Len(runs[id]) + 1 =>
                 \A ch \in Channels \ runs'[id][Len(runs'[id])].avail :
                     RecordOf(delivery', <<id, ch>>) = RecordOf(delivery, <<id, ch>>)]_vars
    /\ [][\A key \in Pairs :
             (/\ Len(LogOf(retries', key)) = Len(LogOf(retries, key)) + 1
              /\ LogOf(retries', key)[Len(LogOf(retries', key))] = "unavailable") =>
                 UNCHANGED <<delivery, sends, goroutines>>]_vars

C33_Witness ==
    \E id \in Stored : \E r \in RunsOf(id) :
        /\ runs[id][r].avail # runs[id][r].asked
        /\ SendsOfRun(id, r) # {}
        /\ \E ch \in Channels :
              /\ <<id, ch>> \in DOMAIN delivery
              /\ delivery[<<id, ch>>].status = "failed"
              /\ \E i \in 1..Len(LogOf(retries, <<id, ch>>)) : LogOf(retries, <<id, ch>>)[i] = "unavailable"

\* C35: an attempt is recorded delivered only for a pair that has had a
\* successful Send, in a fan-out or in a retry
C35_DeliveredOnlyAfterSuccess ==
    \A key \in DOMAIN delivery :
        delivery[key].status = "delivered" =>
            \/ \E c \in sends[key[1]] : c.ch = key[2] /\ c.ok
            \/ \E i \in 1..Len(LogOf(retries, key)) : LogOf(retries, key)[i] = "ok"

C35_Witness ==
    \E id \in Stored :
        /\ \E ch \in Channels : <<id, ch>> \in DOMAIN delivery /\ delivery[<<id, ch>>].status = "delivered"
        /\ \E c \in sends[id] : ~c.ok /\ <<id, c.ch>> \in DOMAIN delivery
                                     /\ delivery[<<id, c.ch>>].status = "failed"

\* C31: every Send that returned an error, the ones that ran into the timeout
\* among them, has left its pair with an attempt, recorded failed unless a
\* later Send on the pair succeeded (the upserts the store refused apart)
C31_TimedOutSendRecordedFailed ==
    \A id \in IDs : \A c \in sends[id] :
        (~c.ok /\ <<id, c.ch>> \notin execFailed) =>
            /\ <<id, c.ch>> \in DOMAIN delivery
            /\ delivery[<<id, c.ch>>].status \in {"failed", "delivered"}

\* the entry is set and has not expired
EntryLive == cache # <<>> /\ now < cache[1].expires

\* the task whose SetEX a step is
Writer(task) == lookups[task].pc = "set" /\ lookups'[task].pc = "done"

\* the cache holds nothing or one marshalled preference map, and it changes
\* only by the SetEX of a lookup, which leaves the map that lookup read
CacheWellFormed ==
    /\ [](cache # <<>> => \E p \in UserPrefChoices : cache[1].value = MarshalPrefs(p))
    /\ [][cache' # cache =>
             \E task \in LookupTasks :
                 /\ Writer(task)
                 /\ cache' = <<[value |-> MarshalPrefs(lookups[task].map), expires |-> now + TTL]>>]_vars

\* a lookup whose Get is answered while the entry is live returns the cached
\* map and does not query the store
HitServedFromCache ==
    /\ [](\A task \in LookupTasks : lookups[task].saw = "hit" => ~lookups[task].queried)
    /\ [][\A task \in LookupTasks :
             (lookups[task].pc = "idle" /\ lookups'[task].pc # "idle") =>
                 /\ lookups'[task].saw = "hit" =>
                        EntryLive /\ lookups'[task].map = UnmarshalPrefs(cache[1].value)
                 /\ lookups'[task].saw = "miss" => ~EntryLive]_vars

C38_RoutingIgnoresHint ==
    [][\A id \in 1..MaxNotifs : \A m \in HintMessages(id), dbOk \in BOOLEAN, av \in AnyAvailability :
          (MessageClass(m, dbOk) = "inserted" /\ HintIngest(m, dbOk, av)) =>
              \A h \in HintChoices : HintIngest(WithHint(m, h), dbOk, av)]_vars

C38_Witness ==
    \E id \in Stored :
        /\ id \in DOMAIN hints
        /\ hints[id].hint = <<"email">>
        /\ notifications[id].priority = "high"
        /\ \E c \in sends[id] : c.ch = "push" /\ ~c.ok
        /\ \E c \in sends[id] : c.ch = "sms" /\ c.ok

====
